---- MODULE Spec2Model ----
(***************************************************************************)
(* pfz: an interactive item selector (src/src/main.rs).                    *)
(*                                                                         *)
(* Two units of execution are modelled: the Producer thread               *)
(* (FuzzyMatcher::read_input) and the main loop (FuzzyMatcher::main) with  *)
(* its three phases per pass: drain, event, recompute-then-draw.           *)
(* find_matches alone (PureSpec) and the page moves from the top of the    *)
(* list (PageSpec) have specifications of their own; LiveSpec adds to Spec *)
(* the progress of the main thread and of time.                            *)
(*                                                                         *)
(* one_char_added is a history variable: it records that the only change   *)
(* since the last recompute is one character appended to the query.  No    *)
(* guard reads it.                                                         *)
(*                                                                         *)
(* Text is a sequence of one-character strings.  Item indices are 0-based  *)
(* as in the source, so item i of the code is items[i + 1] here.           *)
(*                                                                         *)
(* usize values that the selection arithmetic can wrap (offset, and the    *)
(* bound matches.len() - height - 1) are kept as the representative of     *)
(* their residue modulo 2^64 that lies nearest to zero: a negative number  *)
(* n stands for 2^64 + n.  Addition and subtraction of representatives are *)
(* the wrapping operations; ULt is the unsigned order.                     *)
(***************************************************************************)
EXTENDS Integers, Sequences, FiniteSets, TLC

VARIABLES
    items,          \* MatchList.items: the Item List
    matches,        \* MatchList.matches: the Match Set (0-based indices)
    cursor,         \* MatchList.cursor
    offset,         \* MatchList.offset (usize representative)
    height,         \* MatchList.height
    query_str,      \* Query.query_str (Query.query is Terms(query_str))
    screen_size,    \* FuzzyMatcher.screen_size
    update_matches, \* main: let mut update_matches
    update_render,  \* main: let mut update_render
    reading_done,   \* main: let mut reading_done
    query_remove,   \* main: let mut query_remove
    pc,             \* position of the main loop
    channel,        \* messages in flight on the mpsc channel
    stdin_rest,     \* records the Producer has not read yet
    producer,       \* position of the Producer thread
    is_tty,         \* stdin().is_tty()
    benchmark,      \* args.benchmark
    raw_mode,       \* terminal still in raw mode (not yet restored)
    result,         \* HandleEventResult that ended the loop, or "none"
    exit_code,      \* process exit status, -1 while running
    stdout,         \* lines printed to standard output
    one_char_added  \* history: the only change since the last recompute is
                    \* one character appended to the query

vars == <<items, matches, cursor, offset, height, query_str, screen_size,
          update_matches, update_render, reading_done, query_remove, pc,
          channel, stdin_rest, producer, is_tty, benchmark,
          raw_mode, result, exit_code, stdout, one_char_added>>

match_list_vars == <<items, matches, cursor, offset, height>>
flag_vars == <<update_matches, update_render, reading_done, query_remove,
              one_char_added>>
producer_vars == <<channel, stdin_rest, producer>>
config_vars == <<is_tty, benchmark>>
exit_vars == <<raw_mode, result, exit_code, stdout>>

----------------------------------------------------------------------------
(* Bounds of the model *)

MaxItems == 2       \* records on the Producer's input
MaxQuery == 2       \* characters of raw query text
MaxHeight == 1      \* viewport heights 0..MaxHeight
MaxOffset == 1      \* |offset| up to which navigation keys are still fed

(* Program constants *)

CHUNK == 128            \* .chunks(128)
SUCCESS == 0            \* ExitCode::SUCCESS
FAILURE == 1            \* ExitCode::FAILURE
INTERRUPTED == 130      \* ExitCode::from(130)
PANIC == 101            \* exit status of a panicking main thread
RUNNING == 0 - 1        \* no exit status yet

None == <<"None">>                  \* the end-of-stream marker, Option::None
Some(chunk) == <<"Some", chunk>>    \* Option::Some(chunk)

----------------------------------------------------------------------------
(* Text *)

\* the records on the Producer's input are a prefix of this pattern, repeated
ItemPattern == << <<"a">>, <<"A", "b">> >>
\* the characters the user can type
QueryChars == { "B", " " }
\* the terminal sizes a Resize event reports
ScreenSizes == { <<80, 24>> }

Min(a, b) == IF a < b THEN a ELSE b

RECURSIVE SeqsUpTo(_, _)
SeqsUpTo(S, n) ==
    IF n = 0 THEN { <<>> }
    ELSE LET shorter == SeqsUpTo(S, n - 1)
         IN  shorter \cup { Append(s, x) : s \in shorter, x \in S }

Range(s) == { s[i] : i \in 1..Len(s) }

\* u8::is_ascii_whitespace: space, tab, line feed, form feed, carriage return
is_ascii_whitespace(c) == c \in { " ", "\t", "\n", "\f", "\r" }

\* char::to_lowercase on the letters of the model
LowerChar(c) ==
    CASE c = "A" -> "a"
      [] c = "B" -> "b"
      [] OTHER -> c

to_lowercase(s) == [i \in 1..Len(s) |-> LowerChar(s[i])]

\* str::contains: the needle occurs at some position of the haystack
contains(hay, needle) ==
    \E k \in 0..(Len(hay) - Len(needle)) :
        SubSeq(hay, k + 1, k + Len(needle)) = needle

\* str::split_ascii_whitespace, scanning left to right; cur is the piece
\* being collected
RECURSIVE SplitFrom(_, _, _)
SplitFrom(s, i, cur) ==
    IF i > Len(s)
    THEN IF cur = <<>> THEN <<>> ELSE <<cur>>
    ELSE IF is_ascii_whitespace(s[i])
         THEN IF cur = <<>>
              THEN SplitFrom(s, i + 1, <<>>)
              ELSE <<cur>> \o SplitFrom(s, i + 1, <<>>)
         ELSE SplitFrom(s, i + 1, Append(cur, s[i]))

split_ascii_whitespace(s) == SplitFrom(s, 1, <<>>)

\* Query::new: the term list derived from the raw text
Terms(raw) == split_ascii_whitespace(raw)

\* is_match comparing without lowering the case
is_match_case_sensitive(terms, item) ==
    \A t \in 1..Len(terms) : contains(item, terms[t])

\* Query::is_match
is_match(terms, item) ==
    \A t \in 1..Len(terms) :
        contains(to_lowercase(item), to_lowercase(terms[t]))

----------------------------------------------------------------------------
(* usize arithmetic.  An overflowing operation panics when the build has   *)
(* overflow checks (the debug profile) and wraps when it has not (the      *)
(* release profile); dbg = TRUE is the checking build.  Which build runs   *)
(* is not part of the state: at each overflow both outcomes are possible.  *)

Builds == BOOLEAN

\* unsigned a < b on representatives
ULt(a, b) == IF (a < 0) = (b < 0) THEN a < b ELSE b < 0

\* a - b overflows (a < b as unsigned numbers): panic in a debug build
SubOverflows(a, b) == ULt(a, b)

\* a + b overflows past 2^64 - 1
AddOverflows(a, b) == (a < 0 /\ b > 0 /\ a + b >= 0) \/ (b < 0 /\ a > 0 /\ a + b >= 0)

----------------------------------------------------------------------------
(* FuzzyMatcher::find_matches *)

\* a parallel filter that collects the indices kept in completion order
\* (here: last candidate first) instead of candidate order
RECURSIVE FilterSeq_CompletionOrder(_, _, _, _)
FilterSeq_CompletionOrder(cands, its, terms, k) ==
    IF k > Len(cands) THEN <<>>
    ELSE FilterSeq_CompletionOrder(cands, its, terms, k + 1)
         \o (IF is_match(terms, its[cands[k] + 1]) THEN <<cands[k]>> ELSE <<>>)

\* (0..n).filter(keep).collect(): the indices kept, ascending
RECURSIVE FilterSeq(_, _, _, _)
FilterSeq(cands, its, terms, k) ==
    IF k > Len(cands) THEN <<>>
    ELSE (IF is_match(terms, its[cands[k] + 1]) THEN <<cands[k]>> ELSE <<>>)
         \o FilterSeq(cands, its, terms, k + 1)

AllIndices(its) == [i \in 1..Len(its) |-> i - 1]

find_matches(its, prev, raw, rd, qr) ==
    IF Len(Terms(raw)) = 0
    THEN AllIndices(its)
    ELSE IF rd /\ ~qr /\ Len(prev) > 0
         THEN FilterSeq(prev, its, Terms(raw), 1)
         ELSE FilterSeq(AllIndices(its), its, Terms(raw), 1)

----------------------------------------------------------------------------
(* MatchList: selection state.  Each move returns the new cursor and       *)
(* offset, and fault = TRUE when the build panics on arithmetic overflow.  *)

Sel(c, o) == [cursor |-> c, offset |-> o, fault |-> FALSE]
Fault(c, o) == [cursor |-> c, offset |-> o, fault |-> TRUE]

\* usize::saturating_sub on values that never wrap
saturating_sub(a, b) == IF a > b THEN a - b ELSE 0

\* matches.len() - height - 1 as a usize representative
LastOffset(n, h) == n - h - 1

\* the subtraction matches.len() - height - 1 overflows
LastOffsetOverflows(n, h) == SubOverflows(n, h) \/ SubOverflows(n - h, 1)

\* move_up_page moving the cursor by one line instead of one page
move_up_page_one_line(c, o, h, dbg) ==
    IF c > 0
    THEN Sel(c - 1, o)
    ELSE IF ULt(0, o)
         THEN IF SubOverflows(o, h) /\ dbg THEN Fault(c, o) ELSE Sel(c, o - h)
         ELSE Sel(c, o)

move_up_page(c, o, h, dbg) ==
    IF c > 0
    THEN Sel(saturating_sub(c, h), o)
    ELSE IF ULt(0, o)
         THEN IF SubOverflows(o, h) /\ dbg THEN Fault(c, o) ELSE Sel(c, o - h)
         ELSE Sel(c, o)

move_down_page(c, o, h, n, dbg) ==
    IF c < h
    THEN Sel(IF c + h > h THEN h ELSE c + h, o)
    ELSE IF LastOffsetOverflows(n, h) /\ dbg
         THEN Fault(c, o)
         ELSE IF ULt(o, LastOffset(n, h))
              THEN IF AddOverflows(o, h) /\ dbg
                   THEN Fault(c, o)
                   ELSE IF ULt(LastOffset(n, h), o + h)
                        THEN Sel(c, LastOffset(n, h))
                        ELSE Sel(c, o + h)
              ELSE Sel(c, o)

move_up(c, o) ==
    IF c > 0
    THEN Sel(c - 1, o)
    ELSE IF ULt(0, o) THEN Sel(c, o - 1) ELSE Sel(c, o)

move_down(c, o, h, n, dbg) ==
    IF c < h
    THEN Sel(c + 1, o)
    ELSE IF LastOffsetOverflows(n, h) /\ dbg
         THEN Fault(c, o)
         ELSE IF ULt(o, LastOffset(n, h))
              THEN IF AddOverflows(o, 1) /\ dbg THEN Fault(c, o) ELSE Sel(c, o + 1)
              ELSE Sel(c, o)

adjust_cursor(c, n) == IF n > 0 /\ c >= n THEN n - 1 ELSE c

adjust_offset(o, n) == IF ULt(n, o) THEN 0 ELSE o

\* the index cursor + offset that get_selection uses; the addition panics in
\* a debug build if it overflows and wraps otherwise
SelectionIndex(c, o) == c + o

\* get_selection returns normally: no overflow panic and both indexings in
\* range
SelectionInRange(c, o, ms, its, dbg) ==
    /\ ~(AddOverflows(c, o) /\ dbg)
    /\ SelectionIndex(c, o) >= 0
    /\ SelectionIndex(c, o) < Len(ms)
    /\ ms[SelectionIndex(c, o) + 1] < Len(its)

get_selection(c, o, ms, its) == its[ms[SelectionIndex(c, o) + 1] + 1]

----------------------------------------------------------------------------
(* Initial state: FuzzyMatcher::new, MatchList::new and the locals of main *)

Inputs ==
    { [i \in 1..n |-> ItemPattern[((i - 1) % Len(ItemPattern)) + 1]] : n \in 0..MaxItems }
Heights == 0..MaxHeight

Init ==
    /\ items = <<>>
    /\ matches = <<>>
    /\ cursor = 0
    /\ offset = 0
    /\ height \in Heights
    /\ query_str = <<>>
    /\ screen_size = <<80, 24>>
    /\ update_matches = TRUE
    /\ update_render = TRUE
    /\ reading_done = FALSE
    /\ query_remove = FALSE
    /\ pc = "drain"
    /\ channel = <<>>
    /\ stdin_rest \in Inputs
    /\ producer = "run"
    /\ is_tty \in BOOLEAN
    /\ benchmark \in BOOLEAN
    /\ raw_mode = TRUE
    /\ result = "none"
    /\ exit_code = RUNNING
    /\ stdout = <<>>
    /\ one_char_added = FALSE

----------------------------------------------------------------------------
(* The Producer thread: FuzzyMatcher::read_input.  It runs while the       *)
(* process is alive.                                                       *)

\* records of the next chunk: one directory entry per send on a terminal,
\* up to CHUNK lines per send on piped input
ChunkLen == IF is_tty THEN 1 ELSE Min(CHUNK, Len(stdin_rest))

\* items_sender.send(Some(chunk))
ProducerSend ==
    /\ pc # "exit"
    /\ producer = "run"
    /\ stdin_rest # <<>>
    /\ channel' = Append(channel, Some(SubSeq(stdin_rest, 1, ChunkLen)))
    /\ stdin_rest' = SubSeq(stdin_rest, ChunkLen + 1, Len(stdin_rest))
    /\ UNCHANGED <<producer, match_list_vars, query_str, screen_size, flag_vars,
                   pc, config_vars, exit_vars>>

\* items_sender.send(None) after the last chunk; the thread returns and the
\* Sender is dropped
ProducerEnd ==
    /\ pc # "exit"
    /\ producer = "run"
    /\ stdin_rest = <<>>
    /\ channel' = Append(channel, None)
    /\ producer' = "done"
    /\ UNCHANGED <<stdin_rest, match_list_vars, query_str, screen_size, flag_vars,
                   pc, config_vars, exit_vars>>

\* read_dir(..).unwrap(), entry.unwrap() or line.unwrap() panics on an I/O
\* error or a non-text record: the thread unwinds, the Sender is dropped and
\* the records of the chunk being collected are lost
ProducerFail ==
    /\ pc # "exit"
    /\ producer = "run"
    /\ producer' = "failed"
    /\ UNCHANGED <<channel, stdin_rest, match_list_vars, query_str, screen_size,
                   flag_vars, pc, config_vars, exit_vars>>

ProducerNext == ProducerSend \/ ProducerEnd \/ ProducerFail

----------------------------------------------------------------------------
(* The main loop: FuzzyMatcher::main *)

\* top of `loop`: the drain phase is entered only while !reading_done
LoopTop(rd) == IF rd THEN "event" ELSE "drain"

\* restore_terminal() followed by return of an exit code
Exit(res, code, out) ==
    /\ pc' = "exit"
    /\ raw_mode' = FALSE
    /\ result' = res
    /\ exit_code' = code
    /\ stdout' = out

\* `while begin_recv.elapsed().as_millis() < 30`: budget left, call recv()
DrainContinue ==
    /\ pc = "drain"
    /\ pc' = "recv"
    /\ UNCHANGED <<match_list_vars, query_str, screen_size, flag_vars,
                   producer_vars, config_vars, exit_vars>>

\* the 30 ms budget of this pass is used up: go on to the event phase
DrainTimeout ==
    /\ pc = "drain"
    /\ pc' = "event"
    /\ UNCHANGED <<match_list_vars, query_str, screen_size, flag_vars,
                   producer_vars, config_vars, exit_vars>>

\* recv() returns Ok(Some(chunk)) with the chunk put in front of the Item
\* List instead of behind it
RecvChunk_Prepend ==
    /\ pc = "recv"
    /\ channel # <<>>
    /\ Head(channel) # None
    /\ items' = Head(channel)[2] \o items
    /\ channel' = Tail(channel)
    /\ update_render' = TRUE
    /\ update_matches' = TRUE
    /\ one_char_added' = FALSE
    /\ pc' = "drain"
    /\ UNCHANGED <<matches, cursor, offset, height, query_str, screen_size,
                   reading_done, query_remove, stdin_rest, producer,
                   config_vars, exit_vars>>

\* recv() returns Ok(Some(chunk))
RecvChunk ==
    /\ pc = "recv"
    /\ channel # <<>>
    /\ Head(channel) # None
    /\ items' = items \o Head(channel)[2]
    /\ channel' = Tail(channel)
    /\ update_render' = TRUE
    /\ update_matches' = TRUE
    /\ one_char_added' = FALSE
    /\ pc' = "drain"
    /\ UNCHANGED <<matches, cursor, offset, height, query_str, screen_size,
                   reading_done, query_remove, stdin_rest, producer,
                   config_vars, exit_vars>>

\* recv() returns Ok(None) with the benchmark arm left out
RecvNone_NoBenchmarkArm ==
    /\ pc = "recv"
    /\ channel # <<>>
    /\ Head(channel) = None
    /\ channel' = Tail(channel)
    /\ reading_done' = TRUE
    /\ pc' = "drain"
    /\ UNCHANGED <<match_list_vars, query_str, screen_size, update_matches,
                   update_render, query_remove, one_char_added, stdin_rest, producer,
                   config_vars,
                   exit_vars>>

\* recv() returns Ok(None): exit in benchmark mode, else reading is done
RecvNone ==
    /\ pc = "recv"
    /\ channel # <<>>
    /\ Head(channel) = None
    /\ channel' = Tail(channel)
    /\ IF benchmark
       THEN /\ Exit(result, SUCCESS, stdout)
            /\ UNCHANGED reading_done
       ELSE /\ reading_done' = TRUE
            /\ pc' = "drain"
            /\ UNCHANGED exit_vars
    /\ UNCHANGED <<match_list_vars, query_str, screen_size, update_matches,
                   update_render, query_remove, one_char_added, stdin_rest, producer,
                   config_vars>>

\* recv() returns Err(RecvError): the channel is empty and the Sender is
\* gone; the `_` arm sets reading_done
RecvErr ==
    /\ pc = "recv"
    /\ channel = <<>>
    /\ producer # "run"
    /\ reading_done' = TRUE
    /\ pc' = "drain"
    /\ UNCHANGED <<match_list_vars, query_str, screen_size, update_matches,
                   update_render, query_remove, one_char_added, producer_vars,
                   config_vars,
                   exit_vars>>

----------------------------------------------------------------------------
(* Event phase: crossterm::event::poll, read and FuzzyMatcher::handle_event *)

\* poll() reports no event within its 10 microseconds
NoEvent ==
    /\ pc = "event"
    /\ pc' = "render"
    /\ UNCHANGED <<match_list_vars, query_str, screen_size, flag_vars,
                   producer_vars, config_vars, exit_vars>>

\* Enter with the emptiness test inverted
HandleEnter_Inverted ==
    /\ pc = "event"
    /\ IF Len(matches) # 0
       THEN Exit("NoMatch", FAILURE, stdout)
       ELSE Exit("Done", PANIC, stdout)
    /\ UNCHANGED <<match_list_vars, query_str, screen_size, flag_vars,
                   producer_vars, config_vars>>

\* Enter: handle_event returns NoMatch or Done by matches.len(); main then
\* restores the terminal and, for Done, prints get_selection()
HandleEnter ==
    /\ pc = "event"
    /\ IF Len(matches) = 0
       THEN Exit("NoMatch", FAILURE, stdout)
       ELSE \E dbg \in Builds :
            IF SelectionInRange(cursor, offset, matches, items, dbg)
            THEN Exit("Done", SUCCESS,
                      Append(stdout, get_selection(cursor, offset, matches, items)))
            ELSE Exit("Done", PANIC, stdout)
    /\ UNCHANGED <<match_list_vars, query_str, screen_size, flag_vars,
                   producer_vars, config_vars>>

\* Ctrl-C: handle_event returns Quit
HandleCtrlC ==
    /\ pc = "event"
    /\ Exit("Quit", INTERRUPTED, stdout)
    /\ UNCHANGED <<match_list_vars, query_str, screen_size, flag_vars,
                   producer_vars, config_vars>>

NavKeys == { "Up", "Down", "PageUp", "PageDown", "CtrlP", "CtrlN" }

\* the MatchList method a navigation key calls
Moved(key, dbg) ==
    CASE key \in { "Up", "CtrlP" } -> move_up(cursor, offset)
      [] key \in { "Down", "CtrlN" } ->
             move_down(cursor, offset, height, Len(matches), dbg)
      [] key = "PageUp" -> move_up_page(cursor, offset, height, dbg)
      [] key = "PageDown" ->
             move_down_page(cursor, offset, height, Len(matches), dbg)

\* a navigation key handled as a query edit: update_matches is set instead
\* of update_render
HandleMove_AsQueryAdd(key) ==
    /\ pc = "event"
    /\ offset <= MaxOffset
    /\ offset >= 0 - MaxOffset
    /\ \E dbg \in Builds :
         IF Moved(key, dbg).fault
         THEN /\ pc' = "exit"
              /\ exit_code' = PANIC
              /\ UNCHANGED <<cursor, offset, update_matches, raw_mode, result,
                             stdout>>
         ELSE /\ cursor' = Moved(key, dbg).cursor
              /\ offset' = Moved(key, dbg).offset
              /\ update_matches' = TRUE
              /\ pc' = "render"
              /\ UNCHANGED exit_vars
    /\ UNCHANGED <<items, matches, height, query_str, screen_size, update_render,
                   reading_done, query_remove, one_char_added, producer_vars,
                   config_vars>>

\* a navigation key: handle_event returns Continue, or the move panics
HandleMove(key) ==
    /\ pc = "event"
    /\ offset <= MaxOffset
    /\ offset >= 0 - MaxOffset
    /\ \E dbg \in Builds :
         IF Moved(key, dbg).fault
         THEN /\ pc' = "exit"
              /\ exit_code' = PANIC
              /\ UNCHANGED <<cursor, offset, update_render, raw_mode, result, stdout>>
         ELSE /\ cursor' = Moved(key, dbg).cursor
              /\ offset' = Moved(key, dbg).offset
              /\ update_render' = TRUE
              /\ pc' = "render"
              /\ UNCHANGED exit_vars
    /\ UNCHANGED <<items, matches, height, query_str, screen_size, update_matches,
                   reading_done, query_remove, one_char_added, producer_vars,
                   config_vars>>

\* Char(c): the query is replaced and handle_event returns QueryAdd
HandleChar(c) ==
    /\ pc = "event"
    /\ Len(query_str) < MaxQuery
    /\ query_str' = Append(query_str, c)
    /\ update_matches' = TRUE
    /\ one_char_added' = ~update_matches
    /\ pc' = "render"
    /\ UNCHANGED <<match_list_vars, screen_size, update_render, reading_done,
                   query_remove, producer_vars, config_vars, exit_vars>>

\* Backspace: with a non-empty query the last character is popped and
\* handle_event returns QueryRemove; with an empty query the guard fails,
\* the `_` arm is taken and handle_event returns Continue
HandleBackspace ==
    /\ pc = "event"
    /\ IF Len(query_str) > 0
       THEN /\ query_str' = SubSeq(query_str, 1, Len(query_str) - 1)
            /\ query_remove' = TRUE
            /\ update_matches' = TRUE
            /\ one_char_added' = FALSE
            /\ UNCHANGED update_render
       ELSE /\ update_render' = TRUE
            /\ UNCHANGED <<query_str, query_remove, one_char_added, update_matches>>
    /\ pc' = "render"
    /\ UNCHANGED <<match_list_vars, screen_size, reading_done, producer_vars,
                   config_vars, exit_vars>>

\* Resize(cols, rows): the cached size is replaced, handle_event returns
\* Continue
HandleResize(size) ==
    /\ pc = "event"
    /\ screen_size' = size
    /\ update_render' = TRUE
    /\ pc' = "render"
    /\ UNCHANGED <<match_list_vars, query_str, update_matches, reading_done,
                   query_remove, one_char_added, producer_vars, config_vars,
                   exit_vars>>

\* any other event: handle_event returns Continue
HandleOther ==
    /\ pc = "event"
    /\ update_render' = TRUE
    /\ pc' = "render"
    /\ UNCHANGED <<match_list_vars, query_str, screen_size, update_matches,
                   reading_done, query_remove, one_char_added, producer_vars, config_vars,
                   exit_vars>>

----------------------------------------------------------------------------
(* Recompute-then-draw phase *)

\* last_render.elapsed().as_millis() > 30 is false: nothing is done
Throttled ==
    /\ pc = "render"
    /\ pc' = LoopTop(reading_done)
    /\ UNCHANGED <<match_list_vars, query_str, screen_size, flag_vars,
                   producer_vars, config_vars, exit_vars>>

\* the Match Set after `if update_matches { matches = find_matches(..) }`
Recomputed ==
    IF update_matches
    THEN find_matches(items, matches, query_str, reading_done, query_remove)
    ELSE matches

\* the interval has elapsed: recompute if update_matches, render (which
\* runs adjust_cursor and adjust_offset) if either flag is set, clear both
RecomputeDraw ==
    /\ pc = "render"
    /\ matches' = Recomputed
    /\ IF update_render \/ update_matches
       THEN /\ cursor' = adjust_cursor(cursor, Len(Recomputed))
            /\ offset' = adjust_offset(offset, Len(Recomputed))
       ELSE UNCHANGED <<cursor, offset>>
    /\ update_render' = FALSE
    /\ update_matches' = FALSE
    /\ one_char_added' = FALSE
    /\ pc' = LoopTop(reading_done)
    /\ UNCHANGED <<items, height, query_str, screen_size, reading_done,
                   query_remove, producer_vars, config_vars, exit_vars>>

MainNext ==
    \/ DrainContinue
    \/ DrainTimeout
    \/ RecvChunk
    \/ RecvNone
    \/ RecvErr
    \/ NoEvent
    \/ HandleEnter
    \/ HandleCtrlC
    \/ \E key \in NavKeys : HandleMove(key)
    \/ \E c \in QueryChars : HandleChar(c)
    \/ HandleBackspace
    \/ \E size \in ScreenSizes : HandleResize(size)
    \/ HandleOther
    \/ Throttled
    \/ RecomputeDraw

Next == ProducerNext \/ MainNext

Spec == Init /\ [][Next]_vars

\* The main thread keeps running while it has a step to take, and time
\* passes: a drain phase that keeps receiving finds its 30 ms budget spent
\* at some check, and a loop that keeps reaching the throttle check finds
\* the 30 ms interval elapsed at some pass.  Nothing is assumed of the
\* Producer: its input may stay silent for ever.
LiveSpec ==
    /\ Spec
    /\ WF_vars(MainNext)
    /\ SF_vars(DrainTimeout)
    /\ SF_vars(RecomputeDraw)

----------------------------------------------------------------------------
(* Pure computation: find_matches applied once to an arbitrary Item List   *)
(* and Query, with arguments under which the previous-subset branch is not *)
(* taken.                                                                  *)

MaxPureQuery == 3   \* characters of raw query text in PureSpec

PureItemPool == { <<"a">>, <<"A", "b">>, <<"b", "A">>, <<"B", " ", "a">> }
PureQueryChars == { "a", "b", "B", " " }

PureInit ==
    /\ items \in SeqsUpTo(PureItemPool, MaxItems)
    /\ query_str \in SeqsUpTo(PureQueryChars, MaxPureQuery)
    /\ matches = <<>>
    /\ cursor = 0
    /\ offset = 0
    /\ height = 0
    /\ screen_size = <<80, 24>>
    /\ update_matches = TRUE
    /\ update_render = TRUE
    /\ reading_done \in BOOLEAN
    /\ query_remove \in BOOLEAN
    /\ pc = "pure"
    /\ channel = <<>>
    /\ stdin_rest = <<>>
    /\ producer = "done"
    /\ is_tty = FALSE
    /\ benchmark = FALSE
    /\ raw_mode = TRUE
    /\ result = "none"
    /\ exit_code = RUNNING
    /\ stdout = <<>>
    /\ one_char_added = FALSE

\* matches = find_matches(reading_done, query_remove) on an empty previous
\* Match Set
PureFind ==
    /\ pc = "pure"
    /\ matches' = find_matches(items, matches, query_str, reading_done, query_remove)
    /\ pc' = "pure_done"
    /\ UNCHANGED <<items, cursor, offset, height, query_str, screen_size,
                   flag_vars, producer_vars, config_vars, exit_vars>>

\* one character is appended to the query and find_matches runs again, on
\* the Match Set the first call returned
PureNarrow(c) ==
    /\ pc = "pure_done"
    /\ Len(query_str) < MaxPureQuery
    /\ query_str' = Append(query_str, c)
    /\ matches' = find_matches(items, matches, Append(query_str, c),
                               reading_done, query_remove)
    /\ pc' = "pure_narrowed"
    /\ UNCHANGED <<items, cursor, offset, height, screen_size, flag_vars,
                   producer_vars, config_vars, exit_vars>>

PureNext == PureFind \/ \E c \in PureQueryChars : PureNarrow(c)

PureSpec == PureInit /\ [][PureNext]_vars

----------------------------------------------------------------------------
(* Paging from the top of the list: MatchList::move_down_page followed by  *)
(* MatchList::move_up_page, for every Match Set size and viewport height   *)
(* within the bounds, on the Match Set of the empty query.                 *)

MaxPageLen == 7         \* Match Set sizes 0..MaxPageLen
MaxPageHeight == 4      \* viewport heights 0..MaxPageHeight

PageInit ==
    /\ items \in { [i \in 1..n |-> ItemPattern[((i - 1) % Len(ItemPattern)) + 1]] :
                      n \in 0..MaxPageLen }
    /\ matches = AllIndices(items)
    /\ cursor = 0
    /\ offset = 0
    /\ height \in 0..MaxPageHeight
    /\ query_str = <<>>
    /\ screen_size = <<80, 24>>
    /\ update_matches = FALSE
    /\ update_render = FALSE
    /\ reading_done = TRUE
    /\ query_remove = FALSE
    /\ pc = "page_top"
    /\ channel = <<>>
    /\ stdin_rest = <<>>
    /\ producer = "done"
    /\ is_tty = FALSE
    /\ benchmark = FALSE
    /\ raw_mode = TRUE
    /\ result = "none"
    /\ exit_code = RUNNING
    /\ stdout = <<>>
    /\ one_char_added = FALSE

\* one page move at position `at`: the new selection, or the panic
PageMove(at, to, m) ==
    /\ pc = at
    /\ IF m.fault
       THEN /\ pc' = "exit"
            /\ exit_code' = PANIC
            /\ UNCHANGED <<cursor, offset>>
       ELSE /\ cursor' = m.cursor
            /\ offset' = m.offset
            /\ pc' = to
            /\ UNCHANGED exit_code
    /\ UNCHANGED <<items, matches, height, query_str, screen_size, flag_vars,
                   producer_vars, config_vars, raw_mode, result, stdout>>

PageDown ==
    \E dbg \in Builds :
        PageMove("page_top", "page_down",
                 move_down_page(cursor, offset, height, Len(matches), dbg))

PageUp ==
    \E dbg \in Builds :
        PageMove("page_down", "page_up",
                 move_up_page(cursor, offset, height, dbg))

PageNext == PageDown \/ PageUp

PageSpec == PageInit /\ [][PageNext]_vars

----------------------------------------------------------------------------
(* Reference notions used by the properties *)

\* the full recomputation of a query over an Item List
FullMatches(its, raw) == FilterSeq(AllIndices(its), its, Terms(raw), 1)

\* the index cursor + offset is a valid index of the Match Set
SelectionValid ==
    /\ SelectionIndex(cursor, offset) >= 0
    /\ SelectionIndex(cursor, offset) < Len(matches)

\* letters compared without regard to case
SameLetter(x, y) ==
    \/ x = y
    \/ { x, y } = { "a", "A" }
    \/ { x, y } = { "b", "B" }

\* t occurs in item at some position, letter by letter, ignoring case
OccursIgnoringCase(t, item) ==
    \E k \in 0..(Len(item) - Len(t)) :
        \A m \in 1..Len(t) : SameLetter(item[k + m], t[m])

\* the whitespace-separated terms of raw text: its maximal runs of
\* characters that are not whitespace
WhitespaceTerms(raw) ==
    { SubSeq(raw, p[1], p[2]) :
        p \in { q \in (1..Len(raw)) \X (1..Len(raw)) :
                  /\ q[1] <= q[2]
                  /\ \A k \in q[1]..q[2] : raw[k] # " "
                  /\ (q[1] = 1 \/ raw[q[1] - 1] = " ")
                  /\ (q[2] = Len(raw) \/ raw[q[2] + 1] = " ") } }

StrictlyAscending(s) == \A i \in 1..(Len(s) - 1) : s[i] < s[i + 1]

----------------------------------------------------------------------------
(* Properties *)

\* C1: once every chunk has been drained (reading_done) and a recompute has
\* run since the last change (update_matches is clear), the Match Set holds
\* every index of the Item List whose item matches the current query.
C1_AllArrivedItemsMatched ==
    (reading_done /\ ~update_matches) =>
        \A i \in 0..(Len(items) - 1) :
            is_match(Terms(query_str), items[i + 1]) => i \in Range(matches)

\* C2: every recompute leaves the Match Set equal to the full recomputation
\* of the current query over the whole Item List.
C2_IncrementalEqualsFull ==
    [][(RecomputeDraw /\ update_matches) =>
            matches' = FullMatches(items', query_str')]_vars

\* C3: whenever a confirm can call get_selection (event phase, Match Set
\* non-empty) cursor + offset is a valid index of the Match Set, and so it is
\* after every Match Set replacement followed by adjust_cursor/adjust_offset.
C3_SelectionClamped ==
    /\ [](pc = "event" /\ Len(matches) > 0 => SelectionValid)
    /\ [][(RecomputeDraw /\ Len(matches') > 0) => SelectionValid']_vars

\* C4: when a confirm has used the Match Set to decide Done or NoMatch, the
\* Match Set is the complete match result of the current Query over the
\* current Item List.
C4_MatchSetCurrentAtUse ==
    result \in { "Done", "NoMatch" } => matches = FullMatches(items, query_str)

\* C5: in the drain phase the main loop can always take its next step by
\* itself: the receive returns whether or not the Producer sends anything.
C5_DrainNeverBlocks ==
    pc = "recv" => ENABLED MainNext

\* C6: after a Producer failure the main loop neither treats the closed
\* channel as the end of the stream nor exits with success.
C6_ProducerFailureFatal ==
    producer = "failed" => (~reading_done /\ exit_code # SUCCESS)

\* C7: a step that ends the loop with Done or NoMatch is a step of the event
\* phase, it ends with Done exactly when the Match Set is non-empty, NoMatch
\* exits with the failure status and prints nothing; with an empty Item List
\* the Match Set is empty and the loop never ends with Done.
C7_ConfirmOutcome ==
    /\ [][(result = "none" /\ result' \in { "Done", "NoMatch" }) =>
            /\ pc = "event"
            /\ pc' = "exit"
            /\ (result' = "Done") = (Len(matches) > 0)
            /\ (result' = "NoMatch") => (exit_code' = FAILURE /\ stdout' = <<>>)]_vars
    /\ [](Len(items) = 0 => (Len(matches) = 0 /\ result # "Done"))
    /\ [](pc = "event" => ENABLED HandleEnter)

\* C8: a full find_matches returns, in ascending order, exactly the indices
\* of the items in which every whitespace-separated term of the query occurs
\* ignoring case; with no terms it returns every index.
C8_FullComputation ==
    pc = "pure_done" =>
        /\ StrictlyAscending(matches)
        /\ Range(matches) =
              { i \in 0..(Len(items) - 1) :
                  \A t \in WhitespaceTerms(query_str) :
                      OccursIgnoringCase(t, items[i + 1]) }
        /\ (WhitespaceTerms(query_str) = {} => matches = AllIndices(items))

\* C9: the loop ends only in one of four ways: Done with success and exactly
\* the selected item printed, NoMatch with the failure status and nothing
\* printed, Quit with status 130 and nothing printed, or the benchmark exit.
C9_ExitSignaling ==
    pc = "exit" =>
        \/ /\ result = "Done"
           /\ exit_code = SUCCESS
           /\ SelectionValid
           /\ stdout = <<items[matches[SelectionIndex(cursor, offset) + 1] + 1]>>
        \/ result = "NoMatch" /\ exit_code = FAILURE /\ stdout = <<>>
        \/ result = "Quit" /\ exit_code = INTERRUPTED /\ stdout = <<>>
        \/ result = "none" /\ benchmark /\ exit_code = SUCCESS /\ stdout = <<>>

\* C10: in benchmark mode the step that receives the end-of-stream marker
\* ends the loop with success, restores the terminal, prints nothing and
\* recomputes nothing, and nothing happens after the loop has ended.
C10_BenchmarkExit ==
    /\ [][(benchmark /\ pc = "recv" /\ channel # <<>> /\ Head(channel) = None
            /\ channel' # channel) =>
            /\ pc' = "exit"
            /\ exit_code' = SUCCESS
            /\ raw_mode' = FALSE
            /\ stdout' = <<>>
            /\ UNCHANGED <<match_list_vars, query_str, result>>]_vars
    /\ [][pc = "exit" => UNCHANGED vars]_vars
    /\ [](benchmark => ~reading_done \/ producer = "failed")

----------------------------------------------------------------------------
(* Reachable cases of the properties that hold *)

\* C7: a confirm with a non-empty Match Set of a typed query has ended the
\* loop with Done and printed the selection.
C7_Witness ==
    /\ result = "Done"
    /\ exit_code = SUCCESS
    /\ Len(matches) > 0
    /\ query_str # <<>>
    /\ Len(stdout) = 1

\* C8: a full computation for a query of two terms has kept some items and
\* dropped others.
C8_Witness ==
    /\ pc = "pure_done"
    /\ Len(Terms(query_str)) = 2
    /\ Len(matches) > 0
    /\ Len(matches) < Len(items)

\* C10: the benchmark exit has been taken after items were ingested.
C10_Witness ==
    /\ pc = "exit"
    /\ benchmark
    /\ result = "none"
    /\ exit_code = SUCCESS
    /\ ~raw_mode
    /\ Len(items) > 0


\* a pass of the main loop that recomputes the Match Set and draws it
Publishes == update_matches /\ ~update_matches'

\* C11: with no new items arriving, the Match Set published after one
\* character was appended to the query is a subset of the one published
\* before, and the Match Set published once a character has been removed
\* contains every index of the full recomputation of the shorter query
C11_Monotonicity ==
    [][Publishes =>
          /\ one_char_added => Range(matches') \subseteq Range(matches)
          /\ query_remove =>
                Range(FullMatches(items, query_str)) \subseteq Range(matches')]_vars

\* C12: from the top of the list (cursor 0, offset 0), for every Match Set
\* size and viewport height, move_down_page followed by move_up_page leaves
\* cursor and offset no greater than they were: back at (0, 0); a page-down
\* that panics has moved neither
C12_PagingSymmetry ==
    pc \in { "page_up", "exit" } => cursor = 0 /\ offset = 0

\* a page-down that moved the cursor by a whole page, past the end of a
\* shorter Match Set, followed by the page-up
C12_Witness ==
    /\ pc = "page_up"
    /\ height = MaxPageHeight
    /\ Len(matches) \in 1..(height - 1)

\* C13: at every draw and after any sequence of moves the offset lies in
\* [0, max(0, len(matches) - height - 1)]: moves are clamped at both ends,
\* never wrap, also after the Match Set has shrunk while offset > 0
C13_OffsetBound ==
    /\ 0 <= offset
    /\ offset <= (IF Len(matches) - height - 1 > 0
                  THEN Len(matches) - height - 1
                  ELSE 0)

\* the records of the chunks in flight, in the order sent
RECURSIVE ChunksConcat(_)
ChunksConcat(ch) ==
    IF ch = <<>>
    THEN <<>>
    ELSE (IF Head(ch) = None THEN <<>> ELSE Head(ch)[2]) \o ChunksConcat(Tail(ch))

\* every record: received, in flight, and not yet read by the Producer
AllRecords == items \o ChunksConcat(channel) \o stdin_rest

\* C14: the Producer sends the end-of-stream marker once, after its last
\* chunk and as its last message; the Item List is always a prefix of the
\* concatenation of the chunks in send order (no record is lost, duplicated
\* or reordered on the way), it holds every chunk sent once reading_done is
\* set and the whole input once end-of-stream was observed, and no item is
\* appended after reading_done is set
C14_OrderedLosslessIngestion ==
    /\ [](\A i \in 1..Len(channel) : channel[i] = None => i = Len(channel))
    /\ [](producer = "run" => \A i \in 1..Len(channel) : channel[i] # None)
    /\ [](reading_done => channel = <<>>)
    /\ [](reading_done /\ producer = "done" => stdin_rest = <<>>)
    /\ [][/\ AllRecords' = AllRecords
          /\ Len(items') >= Len(items)
          /\ reading_done => items' = items
          /\ producer # "run" =>
                \/ channel' = channel
                \/ channel # <<>> /\ channel' = Tail(channel)
          /\ (Len(channel') > Len(channel)
                  /\ channel'[Len(channel')] = None)
                => producer = "run" /\ producer' = "done" /\ stdin_rest = <<>>]_vars

\* a directory listing of two entries, sent as two chunks, received in
\* order and complete after end-of-stream
C14_Witness ==
    /\ is_tty
    /\ reading_done
    /\ producer = "done"
    /\ Len(items) >= 2
    /\ items[1] # items[2]

\* C15: a pending update_matches flag is cleared only by a pass that
\* replaces the Match Set by find_matches' result and draws it, the Match
\* Set is replaced in no other step, the flag stays set through every other
\* step, and every edit and every chunk is eventually reflected in a
\* published Match Set unless the loop terminates first
C15_RecomputeBeforeDraw ==
    /\ [][update_matches =>
             \/ update_matches' /\ matches' = matches
             \/ /\ pc = "render"
                /\ matches' = find_matches(items, matches, query_str,
                                           reading_done, query_remove)]_vars
    /\ (update_matches /\ (items # <<>> \/ query_str # <<>>))
          ~> (~update_matches \/ pc = "exit")

\* C16: every exit path, the fatal ones included, restores the terminal
\* before the process terminates: no terminated process has left the
\* terminal in raw mode
C16_ExitRestoresTerminal == pc = "exit" => ~raw_mode

\* C17: an event-phase step that keeps the Query and does not confirm or
\* cancel (a navigation key, a resize, any other key, a backspace on an
\* empty query) leaves the Item List and the Match Set unchanged and does
\* not set update_matches, so it triggers no recompute by itself; when it
\* moves the selection it sets update_render; a backspace on an empty query
\* leaves the Query empty and sets only update_render
C17_NavigationFrame ==
    /\ [][(pc = "event" /\ pc' # "event" /\ query_str' = query_str
             /\ result' = "none")
           => /\ UNCHANGED <<items, matches, update_matches, height,
                             reading_done, query_remove>>
              /\ (cursor' # cursor \/ offset' # offset) => update_render']_vars
    /\ [][(pc = "event" /\ query_str = <<>> /\ HandleBackspace)
           => query_str' = <<>> /\ update_render' /\ UNCHANGED update_matches]_vars

\* a navigation key has moved the selection over a Match Set narrowed by a
\* query, and nothing but the draw is pending
C17_Witness ==
    /\ pc = "render"
    /\ update_render
    /\ ~update_matches
    /\ cursor + offset > 0
    /\ query_str # <<>>
    /\ matches # <<>>

\* C18: the Match Set is strictly ascending by item index (hence free of
\* duplicates) and every element is an index of the Item List, for the
\* results of the full scan, of the previous-subset fast path and of the
\* empty-query reset
C18_AscendingValidIndices ==
    /\ StrictlyAscending(matches)
    /\ \A i \in 1..Len(matches) : matches[i] \in 0..(Len(items) - 1)

\* the fast path has filtered a previous Match Set and kept two indices
C18_Witness ==
    /\ pc = "pure_narrowed"
    /\ reading_done
    /\ ~query_remove
    /\ Len(Terms(query_str)) > 0
    /\ Len(matches) >= 2

\* C19: whenever a Down, Ctrl-N or PageDown evaluates
\* matches.len() - height - 1 (cursor not below height) the Match Set has at
\* least height + 1 entries, and whenever a PageUp evaluates offset - height
\* (cursor 0, offset > 0) the offset is at least height: the subtractions
\* neither fault nor wrap
C19_NoUnderflow ==
    [][/\ ((\E key \in { "Down", "CtrlN", "PageDown" } : HandleMove(key))
              /\ ~(cursor < height))
            => ~LastOffsetOverflows(Len(matches), height)
       /\ (HandleMove("PageUp") /\ cursor = 0 /\ ULt(0, offset))
            => ~SubOverflows(offset, height)]_vars

\* the condition under which find_matches filters the previous Match Set
FastPathTaken ==
    /\ Publishes
    /\ Len(Terms(query_str)) > 0
    /\ reading_done
    /\ ~query_remove
    /\ Len(matches) > 0

\* C20: query_remove is set by every backspace that shortens the query and
\* is never cleared, and whenever find_matches takes the previous-subset
\* fast path the previous Match Set is the complete result, over the
\* current Item List, of some query whose result contains the current
\* query's
C20_FastPathPrecondition ==
    /\ [][query_remove => query_remove']_vars
    /\ [][Len(query_str') < Len(query_str) => query_remove']_vars
    /\ [][FastPathTaken =>
             \E q \in SeqsUpTo(QueryChars, MaxQuery) :
                 /\ matches = FullMatches(items, q)
                 /\ Range(FullMatches(items, query_str))
                       \subseteq Range(FullMatches(items, q))]_vars

====
